---- MODULE Spec2Model ----
(***************************************************************************)
(* Model of rusty-cheddar's lint pass (src/src/lib.rs): CheddarPass scans  *)
(* the items of a crate with check_item, appends C declarations to its     *)
(* String buffer, and writes the header file when it is dropped.           *)
(*                                                                         *)
(* Text is modelled at character granularity: a Rust String is a sequence  *)
(* of one-character strings, so that String::pop, str::starts_with, slicing *)
(* and str::trim are modelled by what they do to the characters.           *)
(***************************************************************************)
EXTENDS Integers, Sequences, FiniteSets, TLC

VARIABLES
    buffer,     \* CheddarPass.buffer
    diags,      \* diagnostics reported through context.sess, in order
    trace,      \* value of the buffer after every statement of the last check_item call (trace[1]: at entry)
    hist,       \* items passed to check_item so far, with the buffer and diagnostics length after each
    written,    \* bytes written to the header file by drop
    out,        \* messages printed by drop
    ran,        \* steps of drop that were started, in order
    dropped,    \* drop has run
    arg,        \* <<input>> of rust_to_c or parse_attr when applied on its own, <<>> otherwise
    ret         \* <<result>> of that application, <<>> before it

vars == <<buffer, diags, trace, hist, written, out, ran, dropped, arg, ret>>

----------------------------------------------------------------------------
(* Bounds *)

\* longest stream of items passed to check_item
MaxItems == 2
\* most parameters of a function declaration
MaxParams == 2
\* deepest pointer nesting given to rust_to_c on its own
MaxDepth == 3
\* longest attribute list given to parse_attr on its own
MaxAttrs == 2

----------------------------------------------------------------------------
(* String literals of the source, as character sequences *)

\* "*mut"
s_ptr_mut == <<"*","m","u","t">>
\* "*const"
s_ptr_const == <<"*","c","o","n","s","t">>
\* "const "
s_const_sp == <<"c","o","n","s","t"," ">>
\* "*"
s_star == <<"*">>
\* "void"
s_void == <<"v","o","i","d">>
\* "typedef "
s_typedef == <<"t","y","p","e","d","e","f"," ">>
\* "typedef enum "
s_typedef_enum == <<"t","y","p","e","d","e","f"," ","e","n","u","m"," ">>
\* "typedef struct "
s_typedef_struct == <<"t","y","p","e","d","e","f"," ","s","t","r","u","c","t"," ">>
\* " {\n"
s_open_brace == <<" ","{","\n">>
\* "} "
s_close_brace == <<"}"," ">>
\* ";\n\n"
s_end_decl == <<";","\n","\n">>
\* ";\n"
s_end_field == <<";","\n">>
\* ",\n"
s_end_variant == <<",","\n">>
\* "\t"
s_tab == <<"\t">>
\* " "
s_space == <<" ">>
\* "("
s_lparen == <<"(">>
\* ", "
s_comma_sp == <<","," ">>
\* ");\n\n"
s_close_fn == <<")",";","\n","\n">>
\* "\n"
s_nl == <<"\n">>
\* "#ifndef cheddar_gen_"
s_guard_1 == <<"#","i","f","n","d","e","f"," ","c","h","e","d","d","a","r","_","g","e","n","_">>
\* "_h\n#define cheddar_gen_"
s_guard_2 == <<"_","h","\n","#","d","e","f","i","n","e"," ","c","h","e","d","d","a","r","_","g","e","n","_">>
\* "_h\n\n"
s_guard_3 == <<"_","h","\n","\n">>
\* "#ifdef __cplusplus\nextern "C" {\n#endif\n\n"
s_extern_open == <<"#","i","f","d","e","f"," ","_","_","c","p","l","u","s","p","l","u","s","\n","e","x","t","e","r","n"," ","\"","C","\""," ","{","\n","#","e","n","d","i","f","\n","\n">>
\* "#include <stdint.h>\n#include <stdbool.h>\n\n"
s_includes == <<"#","i","n","c","l","u","d","e"," ","<","s","t","d","i","n","t",".","h",">","\n","#","i","n","c","l","u","d","e"," ","<","s","t","d","b","o","o","l",".","h",">","\n","\n">>
\* "#ifdef __cplusplus\n}\n#endif\n\n#endif"
s_epilogue == <<"#","i","f","d","e","f"," ","_","_","c","p","l","u","s","p","l","u","s","\n","}","\n","#","e","n","d","i","f","\n","\n","#","e","n","d","i","f">>
\* "cheddar.h"
s_cheddar_h == <<"c","h","e","d","d","a","r",".","h">>
\* "default"
s_default == <<"d","e","f","a","u","l","t">>

----------------------------------------------------------------------------
(* str and String operations *)

\* str::starts_with
starts_with(s, p) == Len(p) <= Len(s) /\ SubSeq(s, 1, Len(p)) = p

\* &s[n..]
slice_from(s, n) == SubSeq(s, n + 1, Len(s))

\* The characters with the Unicode White_Space property, which str::trim
\* strips, as far as a string of this module can hold one as a single
\* character: U+0009, U+000A, U+000B (written raw, it has no escape), U+000C,
\* U+000D and U+0020.  The others (U+0085, U+00A0, U+1680, U+2000..U+200A,
\* U+2028, U+2029, U+202F, U+205F, U+3000) are outside ASCII and cannot be
\* one character of a string here, so no string of the model contains them.
White_Space == {" ", "\t", "\n", "", "\f", "\r"}

RECURSIVE trim_start(_)
trim_start(s) == IF s # <<>> /\ Head(s) \in White_Space THEN trim_start(Tail(s)) ELSE s

RECURSIVE trim_end(_)
trim_end(s) ==
    IF s # <<>> /\ s[Len(s)] \in White_Space THEN trim_end(SubSeq(s, 1, Len(s) - 1)) ELSE s

\* str::trim
trim(s) == trim_end(trim_start(s))

\* concatenation of a sequence of strings
RECURSIVE concat(_)
concat(ss) == IF ss = <<>> THEN <<>> ELSE Head(ss) \o concat(Tail(ss))

----------------------------------------------------------------------------
(* rust_to_c *)

PrimitiveTable ==
    { <<<<"(",")">>, <<"v","o","i","d">>>>,   \* "()" => "void"
      <<<<"f","3","2">>, <<"f","l","o","a","t">>>>,   \* "f32" => "float"
      <<<<"f","6","4">>, <<"d","o","u","b","l","e">>>>,   \* "f64" => "double"
      <<<<"i","8">>, <<"i","n","t","8","_","t">>>>,   \* "i8" => "int8_t"
      <<<<"i","1","6">>, <<"i","n","t","1","6","_","t">>>>,   \* "i16" => "int16_t"
      <<<<"i","3","2">>, <<"i","n","t","3","2","_","t">>>>,   \* "i32" => "int32_t"
      <<<<"i","6","4">>, <<"i","n","t","6","4","_","t">>>>,   \* "i64" => "int64_t"
      <<<<"i","s","i","z","e">>, <<"i","n","t","p","t","r","_","t">>>>,   \* "isize" => "intptr_t"
      <<<<"u","8">>, <<"u","i","n","t","8","_","t">>>>,   \* "u8" => "uint8_t"
      <<<<"u","1","6">>, <<"u","i","n","t","1","6","_","t">>>>,   \* "u16" => "uint16_t"
      <<<<"u","3","2">>, <<"u","i","n","t","3","2","_","t">>>>,   \* "u32" => "uint32_t"
      <<<<"u","6","4">>, <<"u","i","n","t","6","4","_","t">>>>,   \* "u64" => "uint64_t"
      <<<<"u","s","i","z","e">>, <<"u","i","n","t","p","t","r","_","t">>>> }   \* "usize" => "uintptr_t"

\* the `match typ` of rust_to_c: the table entry, or typ itself
match_primitive(typ) ==
    IF \E e \in PrimitiveTable : e[1] = typ
    THEN (CHOOSE e \in PrimitiveTable : e[1] = typ)[2]
    ELSE typ

\* rust_to_c without the recursive call: only the outermost pointer is handled
rust_to_c_shallow(typ) ==
    IF starts_with(typ, s_ptr_mut)
    THEN match_primitive(trim(slice_from(typ, 4))) \o s_star
    ELSE IF starts_with(typ, s_ptr_const)
    THEN s_const_sp \o match_primitive(trim(slice_from(typ, 6))) \o s_star
    ELSE match_primitive(typ)

RECURSIVE rust_to_c(_)
rust_to_c(typ) ==
    IF starts_with(typ, s_ptr_mut)
    THEN rust_to_c(trim(slice_from(typ, 4))) \o s_star
    ELSE IF starts_with(typ, s_ptr_const)
    THEN s_const_sp \o rust_to_c(trim(slice_from(typ, 6))) \o s_star
    ELSE match_primitive(typ)

----------------------------------------------------------------------------
(* Attributes *)

\* ast::Lit_
LitStr(s) == [kind |-> "LitStr", str |-> s]
LitInt == [kind |-> "LitInt", str |-> <<>>]
NoLit == [kind |-> "None", str |-> <<>>]

\* ast::MetaItem_ (attr.node.value.node)
MetaWord(name) == [kind |-> "MetaWord", name |-> name, items |-> <<>>, val |-> NoLit]
MetaList(name, items) == [kind |-> "MetaList", name |-> name, items |-> items, val |-> NoLit]
MetaNameValue(name, val) == [kind |-> "MetaNameValue", name |-> name, items |-> <<>>, val |-> val]

\* "///a", the value of the attribute a doc comment desugars to
s_doc_a == <<"/","/","/","a">>
\* "///b"
s_doc_b == <<"/","/","/","b">>

AttrDocA == MetaNameValue("doc", LitStr(s_doc_a))
AttrDocB == MetaNameValue("doc", LitStr(s_doc_b))
AttrDocInt == MetaNameValue("doc", LitInt)
AttrReprC == MetaList("repr", <<MetaWord("C")>>)
AttrReprPackedC == MetaList("repr", <<MetaWord("packed"), MetaWord("C")>>)
AttrNoMangle == MetaWord("no_mangle")
AttrInline == MetaWord("inline")

\* the attributes the model draws from
Attribute == {AttrDocA, AttrDocInt, AttrReprC, AttrReprPackedC, AttrNoMangle, AttrInline, AttrDocB}

check_repr_c ==
    [attr \in Attribute |->
        IF attr.kind = "MetaList" /\ attr.name = "repr"
        THEN IF attr.items # <<>>
             THEN attr.items[1].kind = "MetaWord" /\ attr.items[1].name = "C"
             ELSE FALSE
        ELSE FALSE]

check_no_mangle ==
    [attr \in Attribute |-> attr.kind = "MetaWord" /\ attr.name = "no_mangle"]

\* the closure |_| true
check_any == [attr \in Attribute |-> TRUE]

retrieve_docstring ==
    [attr \in Attribute |->
        IF attr.kind = "MetaNameValue" /\ attr.name = "doc"
        THEN IF attr.val.kind = "LitStr" THEN attr.val.str \o s_nl ELSE <<>>
        ELSE <<>>]

\* parse_attr where every attribute overwrites check_passed
parse_attr_overwrite(attrs, check, retrieve) ==
    LET loop[i \in 0..Len(attrs)] ==
            IF i = 0 THEN <<FALSE, <<>>>>
            ELSE <<check[attrs[i]], loop[i - 1][2] \o retrieve[attrs[i]]>>
    IN  loop[Len(attrs)]

\* <<check_passed, retrieved_str>> after the loop over attrs
parse_attr(attrs, check, retrieve) ==
    LET loop[i \in 0..Len(attrs)] ==
            IF i = 0 THEN <<FALSE, <<>>>>
            ELSE LET check_passed == loop[i - 1][1]
                     retrieved_str == loop[i - 1][2]
                 IN  << IF ~check_passed THEN check[attrs[i]] ELSE check_passed,
                        retrieved_str \o retrieve[attrs[i]] >>
    IN  loop[Len(attrs)]

----------------------------------------------------------------------------
(* Items: what the compiler front end hands to check_item *)

\* pprust::ty_to_string of a chain of raw pointers to a named type
RECURSIVE ty_to_string(_)
ty_to_string(ty) ==
    IF ty.markers = <<>> THEN ty.base
    ELSE (IF Head(ty.markers) = "mut" THEN s_ptr_mut ELSE s_ptr_const)
         \o s_space \o ty_to_string([ty EXCEPT !.markers = Tail(@)])

Ptr(markers, base) == [markers |-> markers, base |-> base]

\* "u8"
t_u8 == <<"u","8">>
\* "i32"
t_i32 == <<"i","3","2">>
\* "Foo"
t_Foo == <<"F","o","o">>
\* "bool"
t_bool == <<"b","o","o","l">>

\* ast::Item_
ItemTy(ty, generics) == [kind |-> "ItemTy", ty |-> ty, generics |-> generics]
ItemEnum(variants, generics) == [kind |-> "ItemEnum", variants |-> variants, generics |-> generics]
ItemStruct(data, generics) == [kind |-> "ItemStruct", data |-> data, generics |-> generics]
ItemFn(decl, abi, generics) == [kind |-> "ItemFn", decl |-> decl, abi |-> abi, generics |-> generics]
ItemMod == [kind |-> "ItemMod"]

\* ast::Item; generics stands for generics.is_parameterized()
Item(vis, attrs, ident, node) == [vis |-> vis, attrs |-> attrs, ident |-> ident, node |-> node]

\* ast::Variant; text is pprust::variant_to_string
Variant(attrs, is_unit, text) == [attrs |-> attrs, is_unit |-> is_unit, text |-> text]

\* ast::VariantData
StructData(fields) == [kind |-> "Struct", fields |-> fields]
TupleData == [kind |-> "Tuple", fields |-> <<>>]
UnitData == [kind |-> "Unit", fields |-> <<>>]

\* ast::StructField of a field-style struct; ty is pprust::ty_to_string
Field(attrs, ident, ty) == [attrs |-> attrs, ident |-> ident, ty |-> ty]

\* ast::Arg; pat is pprust::pat_to_string, ty is pprust::ty_to_string
Arg(pat, ty) == [pat |-> pat, ty |-> ty]

\* ast::FunctionRetTy
NoReturn == [kind |-> "NoReturn", ty |-> <<>>]
DefaultReturn == [kind |-> "DefaultReturn", ty |-> <<>>]
Return(ty) == [kind |-> "Return", ty |-> ty]

FnDecl(inputs, output) == [inputs |-> inputs, output |-> output]

TyItems ==
    { Item("Public", <<AttrDocA>>, <<"T">>, ItemTy(ty_to_string(Ptr(<<"mut">>, t_u8)), g)) :
        g \in BOOLEAN }

EnumVariants ==
    { << Variant(<<AttrDocB>>, TRUE, <<"A">>), Variant(<<>>, TRUE, <<"B"," ","="," ","1">>) >>,
      << Variant(<<>>, TRUE, <<"A">>), Variant(<<AttrDocB>>, FALSE, <<"C","(","u","8",")">>) >> }

EnumItems ==
    { Item("Public", attrs, <<"E">>, ItemEnum(vs, g)) :
        attrs \in { <<AttrReprC, AttrDocA>>, <<AttrDocA, AttrReprPackedC>> },
        vs \in EnumVariants, g \in BOOLEAN }

StructFields ==
    << Field(<<AttrDocB>>, <<"x">>, t_i32),
       Field(<<>>, <<"p">>, ty_to_string(Ptr(<<"const">>, t_Foo))) >>

StructItems ==
    { Item("Public", attrs, <<"S">>, ItemStruct(d, g)) :
        attrs \in { <<AttrDocA, AttrReprC, AttrInline>>, <<AttrDocA>> },
        d \in { StructData(StructFields), TupleData }, g \in BOOLEAN }
    \cup { Item("Public", <<AttrReprC>>, <<"U">>, ItemStruct(UnitData, FALSE)) }

AllArgs ==
    << Arg(<<"a">>, t_i32),
       Arg(<<"b">>, ty_to_string(Ptr(<<"const", "mut">>, t_u8))),
       Arg(<<"c">>, t_bool),
       Arg(<<"d">>, t_Foo) >>

ArgLists == { SubSeq(AllArgs, 1, n) : n \in 0..MaxParams }

\* functions that differ in what decides whether they are looked at at all
FnGateItems ==
    { Item("Public", attrs, <<"f">>, ItemFn(FnDecl(SubSeq(AllArgs, 1, 1), output), abi, g)) :
        attrs \in { <<AttrDocA, AttrNoMangle>>, <<AttrDocA>> },
        abi \in { "C", "Rust" }, g \in BOOLEAN,
        output \in { NoReturn, DefaultReturn } }

\* functions that are emitted, over their signatures
FnBodyItems ==
    { Item("Public", <<AttrNoMangle, AttrDocA, AttrDocB>>, <<"g">>, ItemFn(FnDecl(inputs, output), abi, FALSE)) :
        inputs \in ArgLists, abi \in { "C", "System" },
        output \in { DefaultReturn, Return(ty_to_string(Ptr(<<"mut">>, t_Foo))) } }

PrivItems ==
    { Item("Inherited", <<AttrDocA>>, <<"T">>, ItemTy(t_i32, FALSE)),
      Item("Inherited", <<AttrReprC>>, <<"E">>, ItemEnum(<<Variant(<<>>, TRUE, <<"A">>)>>, FALSE)),
      Item("Inherited", <<AttrReprC>>, <<"S">>, ItemStruct(StructData(StructFields), FALSE)),
      Item("Inherited", <<AttrNoMangle>>, <<"f">>, ItemFn(FnDecl(<<>>, DefaultReturn), "C", FALSE)),
      Item("Inherited", <<>>, <<"m">>, ItemMod) }

OtherItems == { Item("Public", <<AttrDocA, AttrReprC, AttrNoMangle>>, <<"m">>, ItemMod) }

\* the items the model draws from
Items == TyItems \cup EnumItems \cup StructItems \cup FnGateItems \cup FnBodyItems
         \cup PrivItems \cup OtherItems

----------------------------------------------------------------------------
(* The emitters.  st is [buffer, diags, trace]: self.buffer, the diagnostics *)
(* of context.sess, and the buffer after every statement so far.            *)

\* String::push_str as insertion at the front
push_str_front(st, s) ==
    [st EXCEPT !.buffer = s \o @, !.trace = Append(@, s \o st.buffer)]

\* self.buffer.push_str(s)
push_str(st, s) ==
    [st EXCEPT !.buffer = @ \o s, !.trace = Append(@, st.buffer \o s)]

\* self.buffer.pop(): removes the last character, nothing when empty
pop(st) ==
    LET b == IF st.buffer = <<>> THEN <<>> ELSE SubSeq(st.buffer, 1, Len(st.buffer) - 1)
    IN  [st EXCEPT !.buffer = b, !.trace = Append(@, b)]

\* context.sess.span_err(span, msg): records the error and returns
span_err(st, span, msg) ==
    [st EXCEPT !.diags = Append(@, [level |-> "error", span |-> span, msg |-> msg])]

parse_ty(st, item) ==
    LET docs == parse_attr(item.attrs, check_any, retrieve_docstring)[2]
        new_type == item.ident
        old_type == item.node.ty
    IN  IF item.node.generics THEN st
        ELSE push_str(push_str(st, docs),
                      s_typedef \o rust_to_c(old_type) \o s_space \o new_type \o s_end_decl)

parse_enum(st, item) ==
    LET pa == parse_attr(item.attrs, check_repr_c, retrieve_docstring)
        repr_c == pa[1]
        docs == pa[2]
        name == item.ident
        st1 == push_str(st, docs)
        st2 == push_str(st1, s_typedef_enum \o name \o s_open_brace)
        variants == item.node.variants
        \* the state after the first i variants, and whether the loop has returned
        loop[i \in 0..Len(variants)] ==
            IF i = 0 THEN [st |-> st2, returned |-> FALSE]
            ELSE LET prev == loop[i - 1]
                     var == variants[i]
                     vdocs == parse_attr(var.attrs, check_any, retrieve_docstring)[2]
                 IN  IF prev.returned THEN prev
                     ELSE IF ~var.is_unit
                     THEN [st |-> span_err(prev.st, <<"variant", i, name>>,
                                      "cheddar can not handle #[repr(C)] enums with non-unit variants"),
                           returned |-> TRUE]
                     ELSE [st |-> push_str(push_str(prev.st, vdocs),
                                           s_tab \o var.text \o s_end_variant),
                           returned |-> FALSE]
        end == loop[Len(variants)]
    IN  IF ~repr_c THEN st
        ELSE IF item.node.generics
        THEN span_err(st2, <<"item", 0, name>>,
                      "cheddar can not handle parameterized #[repr(C)] enums")
        ELSE IF end.returned THEN end.st
        ELSE push_str(end.st, s_close_brace \o name \o s_end_decl)

parse_struct(st, item) ==
    LET pa == parse_attr(item.attrs, check_repr_c, retrieve_docstring)
        repr_c == pa[1]
        docs == pa[2]
        name == item.ident
        st1 == push_str(st, docs)
        st2 == push_str(st1, s_typedef_struct \o name \o s_open_brace)
        variant_vec == item.node.data.fields
        loop[i \in 0..Len(variant_vec)] ==
            IF i = 0 THEN st2
            ELSE LET var == variant_vec[i]
                     fdocs == parse_attr(var.attrs, check_any, retrieve_docstring)[2]
                     ty == rust_to_c(var.ty)
                 IN  push_str(push_str(loop[i - 1], fdocs),
                              s_tab \o ty \o s_space \o var.ident \o s_end_field)
        st3 == IF item.node.data.kind = "Struct"
               THEN loop[Len(variant_vec)]
               ELSE span_err(st2, <<"item", 0, name>>,
                             "cheddar can not handle unit or tuple #[repr(C)] structs")
    IN  IF ~repr_c THEN st
        ELSE IF item.node.generics
        THEN span_err(st2, <<"item", 0, name>>,
                      "cheddar can not handle parameterized #[repr(C)] structs")
        ELSE push_str(st3, s_close_brace \o name \o s_end_decl)

\* the ABIs parse_fn lets through
CAbis == {"C", "Cdecl", "Stdcall", "Fastcall", "System"}

\* the match on fn_decl.output where a function that never returns is given void
output_type_never_void(output) ==
    IF output.kind = "Return"
    THEN [returns |-> TRUE, text |-> rust_to_c(output.ty)]
    ELSE [returns |-> TRUE, text |-> s_void]

\* the match on fn_decl.output: whether parse_fn goes on, and the text of the return type
output_type(output) ==
    IF output.kind = "NoReturn" THEN [returns |-> FALSE, text |-> <<>>]
    ELSE IF output.kind = "DefaultReturn" THEN [returns |-> TRUE, text |-> s_void]
    ELSE [returns |-> TRUE, text |-> rust_to_c(output.ty)]

\* the argument loop of parse_fn with a single pop
parse_fn_args_one_pop(st, inputs) ==
    LET has_args == Len(inputs) > 0
        loop[i \in 0..Len(inputs)] ==
            IF i = 0 THEN st
            ELSE push_str(loop[i - 1],
                          rust_to_c(inputs[i].ty) \o s_space \o inputs[i].pat \o s_comma_sp)
        end == loop[Len(inputs)]
    IN  IF has_args THEN pop(end) ELSE end

\* the argument loop of parse_fn and the removal of the trailing ", "
parse_fn_args(st, inputs) ==
    LET has_args == Len(inputs) > 0
        loop[i \in 0..Len(inputs)] ==
            IF i = 0 THEN st
            ELSE push_str(loop[i - 1],
                          rust_to_c(inputs[i].ty) \o s_space \o inputs[i].pat \o s_comma_sp)
        end == loop[Len(inputs)]
    IN  IF has_args THEN pop(pop(end)) ELSE end

parse_fn(st, item) ==
    LET pa == parse_attr(item.attrs, check_no_mangle, retrieve_docstring)
        no_mangle == pa[1]
        docs == pa[2]
        name == item.ident
        fn_decl == item.node.decl
        ot == output_type(fn_decl.output)
        st1 == push_str(st, docs)
        st2 == push_str(st1, ot.text \o s_space \o name \o s_lparen)
        st3 == parse_fn_args(st2, fn_decl.inputs)
    IN  IF ~no_mangle THEN st
        ELSE IF item.node.abi \notin CAbis THEN st
        ELSE IF item.node.generics
        THEN span_err(st, <<"item", 0, name>>,
                      "cheddar can not handle parameterized extern functions")
        ELSE IF ~ot.returns
        THEN span_err(st, <<"output", 0, name>>, "panics across a C boundary are naughty!")
        ELSE push_str(st3, s_close_fn)

\* check_item without the visibility test
check_item_any_vis(st, item) ==
    CASE item.node.kind = "ItemTy" -> parse_ty(st, item)
      [] item.node.kind = "ItemEnum" -> parse_enum(st, item)
      [] item.node.kind = "ItemStruct" -> parse_struct(st, item)
      [] item.node.kind = "ItemFn" -> parse_fn(st, item)
      [] OTHER -> st

check_item(st, item) ==
    IF item.vis = "Inherited" THEN st
    ELSE CASE item.node.kind = "ItemTy" -> parse_ty(st, item)
           [] item.node.kind = "ItemEnum" -> parse_enum(st, item)
           [] item.node.kind = "ItemStruct" -> parse_struct(st, item)
           [] item.node.kind = "ItemFn" -> parse_fn(st, item)
           [] OTHER -> st

----------------------------------------------------------------------------
(* Drop for CheddarPass *)

\* Some(path) / None of self.dir and self.file
None == <<>>
Some(x) == <<x>>
unwrap_or(opt, default) == IF opt = None THEN default ELSE opt[1]

\* the positions of the "/" separators of path, and the first of them
separators(path) == { i \in 1..Len(path) : path[i] = "/" }
first_separator(path) == CHOOSE i \in separators(path) : \A j \in separators(path) : i <= j

\* the pieces of path between its "/" separators
RECURSIVE split_path(_)
split_path(path) ==
    IF separators(path) = {} THEN <<path>>
    ELSE <<SubSeq(path, 1, first_separator(path) - 1)>>
         \o split_path(SubSeq(path, first_separator(path) + 1, Len(path)))

\* The last component of a path split into segs, when it is a normal one.
\* Empty pieces (repeated or trailing "/") and "." pieces other than a
\* leading one are no components; None when no component is left or the
\* last one is "." or "..".
last_component(segs) ==
    LET comps == { i \in 1..Len(segs) : segs[i] # <<>> /\ (segs[i] # <<".">> \/ i = 1) }
        last == CHOOSE i \in comps : \A j \in comps : j <= i
    IN  IF comps = {} THEN None
        ELSE IF segs[last] = <<".">> \/ segs[last] = <<".", ".">> THEN None
        ELSE Some(segs[last])

\* Path::file_name (Unix paths)
file_name(path) == last_component(split_path(path))

\* the stem of an optional file name: the name up to its last ".", the whole
\* name when it has no "." or only a leading one
stem_of(fname) ==
    LET dots == { i \in 1..Len(fname[1]) : fname[1][i] = "." }
        last == CHOOSE i \in dots : \A j \in dots : j <= i
    IN  IF fname = None THEN None
        ELSE IF dots = {} \/ last = 1 THEN fname
        ELSE Some(SubSeq(fname[1], 1, last - 1))

\* Path::file_stem: None when the path has no file name
file_stem(path) == stem_of(file_name(path))

\* the chunks drop writes, in order, for self.file = file and self.buffer = buf
header_chunks(file, buf) ==
    LET stem == unwrap_or(file_stem(unwrap_or(file, s_cheddar_h)), s_default)
    IN  << s_guard_1 \o stem \o s_guard_2 \o stem \o s_guard_3,
           s_extern_open,
           s_includes,
           buf,
           s_epilogue >>

\* the steps of drop, and the message printed when a step fails
DropSteps == <<"create", "include guard", "extern guard", "includes", "buffer", "epilogue">>

DropErrors ==
    << "Error: could not open",
       "Error: could not write include guard to header",
       "Error: could not write C++ extern guard to header",
       "Error: could not write includes to header",
       "Error: could not write buffer to header",
       "Error: could not write epilogue to header" >>

\* The file system decides which step fails, if any: io.step is the index in
\* DropSteps of the first step that returns Err (0: none does) and io.n the
\* number of bytes the failing write!() got through before the error.
\* loop[i] is the state after the first i steps.

\* drop where a failure to write the includes is reported but does not return
drop_no_return(file, buf, io) ==
    LET chunks == header_chunks(file, buf)
        loop[i \in 0..Len(DropSteps)] ==
            IF i = 0 THEN [written |-> <<>>, out |-> <<>>, ran |-> <<>>, returned |-> FALSE]
            ELSE LET prev == loop[i - 1]
                     chunk == IF i = 1 THEN <<>> ELSE chunks[i - 1]
                 IN  IF prev.returned THEN prev
                     ELSE IF io.step = i
                     THEN [written |-> prev.written \o SubSeq(chunk, 1, io.n),
                           out |-> Append(prev.out, DropErrors[i]),
                           ran |-> Append(prev.ran, DropSteps[i]),
                           returned |-> DropSteps[i] # "includes"]
                     ELSE [written |-> prev.written \o chunk,
                           out |-> prev.out,
                           ran |-> Append(prev.ran, DropSteps[i]),
                           returned |-> FALSE]
    IN  loop[Len(DropSteps)]

drop(file, buf, io) ==
    LET chunks == header_chunks(file, buf)
        loop[i \in 0..Len(DropSteps)] ==
            IF i = 0 THEN [written |-> <<>>, out |-> <<>>, ran |-> <<>>, returned |-> FALSE]
            ELSE LET prev == loop[i - 1]
                     chunk == IF i = 1 THEN <<>> ELSE chunks[i - 1]
                 IN  IF prev.returned THEN prev
                     ELSE IF io.step = i
                     THEN [written |-> prev.written \o SubSeq(chunk, 1, io.n),
                           out |-> Append(prev.out, DropErrors[i]),
                           ran |-> Append(prev.ran, DropSteps[i]),
                           returned |-> TRUE]
                     ELSE [written |-> prev.written \o chunk,
                           out |-> prev.out,
                           ran |-> Append(prev.ran, DropSteps[i]),
                           returned |-> FALSE]
    IN  loop[Len(DropSteps)]

\* what the file system can do to a drop of buf: no failure, a failure to
\* create the file, or a write that fails before its last byte
IoOutcomes(file, buf) ==
    LET chunks == header_chunks(file, buf)
    IN  { [step |-> 0, n |-> 0], [step |-> 1, n |-> 0] }
        \cup UNION { { [step |-> i, n |-> n] : n \in 0..(Len(chunks[i - 1]) - 1) } :
                       i \in 2..Len(DropSteps) }

----------------------------------------------------------------------------
(* Scanning *)

\* plugin_registrar: CheddarPass { buffer: String::new(), dir: None, file: None }
Fresh ==
    /\ buffer = <<>>
    /\ diags = <<>>
    /\ trace = <<>>
    /\ hist = <<>>
    /\ written = <<>>
    /\ out = <<>>
    /\ ran = <<>>
    /\ dropped = FALSE

\* self.file as plugin_registrar sets it
self_file == None

Init ==
    /\ Fresh
    /\ arg = <<>>
    /\ ret = <<>>

\* one call of check_item by the lint driver
CheckItem ==
    /\ ~dropped
    /\ Len(hist) < MaxItems
    /\ \E item \in Items :
        LET st == check_item([buffer |-> buffer, diags |-> diags, trace |-> <<buffer>>], item)
        IN  /\ buffer' = st.buffer
            /\ diags' = st.diags
            /\ trace' = st.trace
            /\ hist' = Append(hist, [item |-> item, len |-> Len(st.buffer), ndiags |-> Len(st.diags)])
    /\ UNCHANGED <<written, out, ran, dropped, arg, ret>>

Next == CheckItem

Spec == Init /\ [][Next]_vars

----------------------------------------------------------------------------
(* Finalization: the pass is dropped after the scan of a stream *)

\* the pass after the scan of at most one item
InitDrop ==
    /\ arg = <<>>
    /\ ret = <<>>
    /\ written = <<>>
    /\ out = <<>>
    /\ ran = <<>>
    /\ dropped = FALSE
    /\ \/ /\ buffer = <<>>
          /\ diags = <<>>
          /\ trace = <<>>
          /\ hist = <<>>
       \/ \E item \in Items :
            LET st == check_item([buffer |-> <<>>, diags |-> <<>>, trace |-> << <<>> >>], item)
            IN  /\ buffer = st.buffer
                /\ diags = st.diags
                /\ trace = st.trace
                /\ hist = <<[item |-> item, len |-> Len(st.buffer), ndiags |-> Len(st.diags)]>>

\* the pass goes out of scope
Drop ==
    /\ ~dropped
    /\ \E io \in IoOutcomes(self_file, buffer) :
        LET r == drop(self_file, buffer, io)
        IN  /\ written' = r.written
            /\ out' = r.out
            /\ ran' = r.ran
    /\ dropped' = TRUE
    /\ UNCHANGED <<buffer, diags, trace, hist, arg, ret>>

NextDrop == Drop

SpecDrop == InitDrop /\ [][NextDrop]_vars

----------------------------------------------------------------------------
(* rust_to_c and parse_attr on their own *)

MarkerSeqs == UNION { [1..n -> {"mut", "const"}] : n \in 0..MaxDepth }

BaseTypes == { e[1] : e \in PrimitiveTable } \cup { t_bool, t_Foo }

TypeInputs == { Ptr(m, b) : m \in MarkerSeqs, b \in BaseTypes }

InitMap ==
    /\ Fresh
    /\ arg \in { <<ty>> : ty \in TypeInputs }
    /\ ret = <<>>

MapType ==
    /\ ret = <<>>
    /\ ret' = << rust_to_c(ty_to_string(arg[1])) >>
    /\ UNCHANGED <<buffer, diags, trace, hist, written, out, ran, dropped, arg>>

NextMap == MapType

SpecMap == InitMap /\ [][NextMap]_vars

AttrSeqs == UNION { [1..n -> Attribute] : n \in 0..MaxAttrs }

InitAttr ==
    /\ Fresh
    /\ arg \in { <<[attrs |-> a, check |-> c]>> : a \in AttrSeqs, c \in [Attribute -> BOOLEAN] }
    /\ ret = <<>>

ScanAttrs ==
    /\ ret = <<>>
    /\ ret' = << parse_attr(arg[1].attrs, arg[1].check, retrieve_docstring) >>
    /\ UNCHANGED <<buffer, diags, trace, hist, written, out, ran, dropped, arg>>

NextAttr == ScanAttrs

SpecAttr == InitAttr /\ [][NextAttr]_vars

----------------------------------------------------------------------------
(* Vocabulary of the properties *)

IsPrefix(p, s) == Len(p) <= Len(s) /\ \A i \in 1..Len(p) : p[i] = s[i]

IsSuffix(p, s) == Len(p) <= Len(s) /\ \A i \in 1..Len(p) : p[i] = s[Len(s) - Len(p) + i]

\* number of occurrences of the character c in s
CountChar(s, c) == Cardinality({ i \in 1..Len(s) : s[i] = c })

\* number of places where w occurs in s
CountWord(s, w) ==
    Cardinality({ i \in 1..(Len(s) - Len(w) + 1) : SubSeq(s, i, i + Len(w) - 1) = w })

\* s repeated n times
RECURSIVE Rep(_, _)
Rep(s, n) == IF n = 0 THEN <<>> ELSE s \o Rep(s, n - 1)

\* the strings of ss with sep between neighbours
RECURSIVE Join(_, _)
Join(ss, sep) ==
    IF ss = <<>> THEN <<>>
    ELSE IF Len(ss) = 1 THEN ss[1]
    ELSE ss[1] \o sep \o Join(Tail(ss), sep)

\* the doc strings of an attribute list, each with its newline, in list order
RECURSIVE DocText(_)
DocText(attrs) ==
    IF attrs = <<>> THEN <<>>
    ELSE (IF Head(attrs).kind = "MetaNameValue" /\ Head(attrs).name = "doc"
             /\ Head(attrs).val.kind = "LitStr"
          THEN Head(attrs).val.str \o <<"\n">> ELSE <<>>)
         \o DocText(Tail(attrs))

HasAttr(item, a) == \E i \in 1..Len(item.attrs) : item.attrs[i] = a

IsPublic(item) == item.vis # "Inherited"
IsTy(item) == item.node.kind = "ItemTy"
IsEnum(item) == item.node.kind = "ItemEnum"
IsStruct(item) == item.node.kind = "ItemStruct"
IsFn(item) == item.node.kind = "ItemFn"
HasCAbi(item) == item.node.abi \in {"C", "Cdecl", "Stdcall", "Fastcall", "System"}

\* a declaration that is silently skipped
SilentSkip(item) ==
    \/ ~IsPublic(item)
    \/ (IsEnum(item) \/ IsStruct(item)) /\ ~HasAttr(item, AttrReprC)
    \/ IsFn(item) /\ ~HasAttr(item, AttrNoMangle)
    \/ IsFn(item) /\ HasAttr(item, AttrNoMangle) /\ ~HasCAbi(item)
    \/ IsTy(item) /\ item.node.generics
    \/ ~(IsTy(item) \/ IsEnum(item) \/ IsStruct(item) \/ IsFn(item))

\* a declaration that hits a local failure
LocalFailure(item) ==
    /\ IsPublic(item)
    /\ \/ /\ IsEnum(item) /\ HasAttr(item, AttrReprC)
          /\ \/ item.node.generics
             \/ \E i \in 1..Len(item.node.variants) : ~item.node.variants[i].is_unit
       \/ /\ IsStruct(item) /\ HasAttr(item, AttrReprC)
          /\ item.node.generics \/ item.node.data.kind # "Struct"
       \/ IsFn(item) /\ HasAttr(item, AttrNoMangle) /\ HasCAbi(item) /\ item.node.generics

\* a function parse_fn does not skip and finds no generics on
ExportedFn(item) ==
    /\ IsPublic(item) /\ IsFn(item)
    /\ HasAttr(item, AttrNoMangle) /\ HasCAbi(item) /\ ~item.node.generics

NeverReturns(item) == ExportedFn(item) /\ item.node.decl.output.kind = "NoReturn"

ReturningFn(item) == ExportedFn(item) /\ item.node.decl.output.kind # "NoReturn"

\* the last item passed to check_item, and the state at its entry
LastItem == hist[Len(hist)].item
Before == trace[1]
PrevLen(i) == IF i = 1 THEN 0 ELSE hist[i - 1].len
PrevDiags(i) == IF i = 1 THEN 0 ELSE hist[i - 1].ndiags

\* the part of the buffer that was appended during the i-th call
Fragment(i) == SubSeq(buffer, PrevLen(i) + 1, hist[i].len)

\* what check_item appends for item when it is the only item of the stream
Solo(item) == check_item([buffer |-> <<>>, diags |-> <<>>, trace |-> << <<>> >>], item).buffer

----------------------------------------------------------------------------
(* C1: after check_item returns, the buffer consists of complete           *)
(* declarations: it is empty or ends with ";\n\n", and every "{" opened by *)
(* a struct or enum has its closing "}".                                   *)

C1_CompleteFragments ==
    /\ buffer = <<>> \/ IsSuffix(<<";", "\n", "\n">>, buffer)
    /\ CountChar(buffer, "{") = CountChar(buffer, "}")

(* C2: a declaration that hits a local failure leaves the buffer as it was *)
(* when its emitter was called.                                            *)

C2_FailedDeclarationDropped ==
    (hist # <<>> /\ LocalFailure(LastItem)) => buffer = Before

(* C3 as stated: a never-returning exported function appends nothing, and  *)
(* nothing is appended to the buffer after it.                             *)

C3_AbortsRun ==
    \A i \in 1..Len(hist) :
        NeverReturns(hist[i].item) => hist[i].len = PrevLen(i) /\ Len(buffer) = hist[i].len

(* C3 amended: a never-returning exported function appends nothing and is  *)
(* reported with one error; every item passed to check_item after it is   *)
(* emitted as it would be on its own.                                      *)

C3_ReportedAndSkipped ==
    \A i \in 1..Len(hist) :
        NeverReturns(hist[i].item) =>
            /\ hist[i].len = PrevLen(i)
            /\ hist[i].ndiags = PrevDiags(i) + 1
            /\ diags[hist[i].ndiags].level = "error"
            /\ diags[hist[i].ndiags].span = <<"output", 0, hist[i].item.ident>>
            /\ \A j \in (i + 1)..Len(hist) : Fragment(j) = Solo(hist[j].item)

C3_Witness ==
    /\ Len(hist) = 2
    /\ NeverReturns(hist[1].item)
    /\ IsStruct(hist[2].item)
    /\ buffer # <<>>

(* C4 as stated: every statement of an emitter leaves the previous buffer  *)
(* as a prefix of the new one.                                             *)

C4_EveryStepAppends ==
    \A i \in 1..(Len(trace) - 1) : IsPrefix(trace[i], trace[i + 1])

(* C4 amended: during a call of check_item the buffer at entry stays a     *)
(* prefix of the buffer, and every statement appends, except the two pops  *)
(* by which parse_fn removes the ", " it appended after the last parameter *)
(* of a function it emits.                                                 *)

C4_EntryBufferKept ==
    hist # <<>> =>
        LET n == Len(trace)
            shrinks == { i \in 1..(n - 1) : ~IsPrefix(trace[i], trace[i + 1]) }
        IN  /\ buffer = trace[n]
            /\ \A i \in 1..n : IsPrefix(Before, trace[i])
            /\ IF ReturningFn(LastItem) /\ LastItem.node.decl.inputs # <<>>
               THEN /\ shrinks = {n - 3, n - 2}
                    /\ trace[n - 3] = trace[n - 1] \o <<",", " ">>
               ELSE shrinks = {}

C4_Witness ==
    /\ Len(hist) = 2
    /\ Before # <<>>
    /\ ReturningFn(LastItem)
    /\ Len(LastItem.node.decl.inputs) = 2
    /\ Len(buffer) > Len(Before)

(* C5: a silently skipped declaration leaves the buffer unchanged and      *)
(* reports no diagnostic.                                                  *)

C5_SilentSkip ==
    (hist # <<>> /\ SilentSkip(LastItem)) =>
        /\ buffer = Before
        /\ trace = <<Before>>
        /\ Len(diags) = PrevDiags(Len(hist))

C5_Witness ==
    /\ Len(hist) = 2
    /\ buffer # <<>>
    /\ IsPublic(LastItem) /\ IsFn(LastItem)
    /\ HasAttr(LastItem, AttrNoMangle) /\ ~HasCAbi(LastItem)
    /\ LastItem.node.generics
    /\ LastItem.node.decl.output.kind = "NoReturn"

(* C6: the buffer is the concatenation, in input order, of what each item  *)
(* emits on its own, and what an item emits begins with its doc text.      *)

C6_EmissionOrder ==
    /\ buffer = concat([i \in 1..Len(hist) |-> Solo(hist[i].item)])
    /\ \A i \in 1..Len(hist) :
        /\ Fragment(i) = Solo(hist[i].item)
        /\ Fragment(i) # <<>> => IsPrefix(DocText(hist[i].item.attrs), Fragment(i))

C6_Witness ==
    /\ Len(hist) = 2
    /\ IsStruct(hist[1].item) /\ IsFn(hist[2].item)
    /\ Fragment(1) # <<>> /\ Fragment(2) # <<>>
    /\ DocText(hist[2].item.attrs) # <<>>

(* C7: for an exported function that returns, parse_fn appends its docs    *)
(* and then "<ret> <name>(<type> <name>, ...);\n\n" with the parameters in *)
(* input order, joined by ", ", and void for a missing return type.        *)

ParamText(inputs) == [i \in 1..Len(inputs) |-> rust_to_c(inputs[i].ty) \o <<" ">> \o inputs[i].pat]

RetText(output) == IF output.kind = "DefaultReturn" THEN <<"v", "o", "i", "d">> ELSE rust_to_c(output.ty)

C7_Signature ==
    (hist # <<>> /\ ReturningFn(LastItem)) =>
        /\ buffer = Before \o DocText(LastItem.attrs)
                    \o RetText(LastItem.node.decl.output) \o <<" ">> \o LastItem.ident \o <<"(">>
                    \o Join(ParamText(LastItem.node.decl.inputs), <<",", " ">>)
                    \o <<")", ";", "\n", "\n">>
        /\ CountChar(SubSeq(buffer, Len(Before) + 1, Len(buffer)), ",")
             = (IF LastItem.node.decl.inputs = <<>> THEN 0 ELSE Len(LastItem.node.decl.inputs) - 1)
        /\ Len(diags) = PrevDiags(Len(hist))

C7_Witness ==
    /\ Len(hist) = 2
    /\ Before # <<>>
    /\ ReturningFn(LastItem)
    /\ Len(LastItem.node.decl.inputs) = 2
    /\ LastItem.node.decl.output.kind = "Return"

(* C8: drop runs its steps in the fixed order, each at most once; when a   *)
(* step fails one error is printed and no later step runs; what was        *)
(* written is a prefix of the full header.                                 *)

\* "#ifndef cheddar_gen_cheddar_h\n#define cheddar_gen_cheddar_h\n\n"
DefaultGuard ==
    <<"#","i","f","n","d","e","f"," ","c","h","e","d","d","a","r","_","g","e","n","_","c","h","e","d","d","a","r","_","h","\n",
      "#","d","e","f","i","n","e"," ","c","h","e","d","d","a","r","_","g","e","n","_","c","h","e","d","d","a","r","_","h","\n","\n">>

FullHeader == DefaultGuard \o s_extern_open \o s_includes \o buffer \o s_epilogue

C8_Finalization ==
    dropped =>
        /\ IsPrefix(ran, DropSteps)
        /\ IsPrefix(written, FullHeader)
        /\ Len(out) <= 1
        /\ out = <<>> => ran = DropSteps /\ written = FullHeader
        /\ out # <<>> => /\ ran # <<>>
                         /\ out[1] = DropErrors[Len(ran)]
                         /\ written # FullHeader

C8_Witness ==
    /\ dropped
    /\ Len(out) = 1
    /\ ran = SubSeq(DropSteps, 1, 5)
    /\ buffer # <<>>
    /\ Len(written) > Len(DefaultGuard \o s_extern_open \o s_includes)

(* C9: N pointer markers in front of a base type give the mapped base type *)
(* followed by N "*", with one "const " for every *const marker and none   *)
(* for a *mut marker; a base type outside the table is kept as it is.      *)

C9_PointerDepth ==
    ret # <<>> =>
        LET ty == arg[1]
            N == Len(ty.markers)
            consts == Cardinality({ i \in 1..N : ty.markers[i] = "const" })
            base == IF \E e \in PrimitiveTable : e[1] = ty.base
                    THEN (CHOOSE e \in PrimitiveTable : e[1] = ty.base)[2]
                    ELSE ty.base
        IN  /\ ret[1] = Rep(<<"c", "o", "n", "s", "t", " ">>, consts) \o base \o Rep(<<"*">>, N)
            /\ CountChar(ret[1], "*") = N
            /\ CountWord(ret[1], <<"c", "o", "n", "s", "t">>) = consts

C9_Witness ==
    /\ ret # <<>>
    /\ arg[1].markers = <<"const", "mut", "const">>
    /\ arg[1].base = t_Foo
    /\ CountChar(ret[1], "*") = 3

(* C10: the flag parse_attr returns is true exactly when some attribute of *)
(* the list matches the check, whatever follows the match, and the text is *)
(* the concatenation of what retrieve gives for every attribute, in order. *)

C10_FlagAndText ==
    ret # <<>> =>
        LET attrs == arg[1].attrs
            check == arg[1].check
        IN  /\ ret[1][1] = (\E i \in 1..Len(attrs) : check[attrs[i]])
            /\ \A i \in 1..Len(attrs) : check[attrs[i]] => ret[1][1]
            /\ ret[1][2] = DocText(attrs)

C10_Witness ==
    /\ ret # <<>>
    /\ Len(arg[1].attrs) = 2
    /\ arg[1].check[arg[1].attrs[1]] /\ ~arg[1].check[arg[1].attrs[2]]
    /\ arg[1].attrs[1] = AttrDocA /\ arg[1].attrs[2] = AttrDocB
    /\ ret[1][1]

====
